---- MODULE Spec2Model ----
(***************************************************************************)
(* Model of bustub::ReaderWriterLatch (src/include/common/rwlatch.h): a    *)
(* reader-writer latch built from one std::mutex (mutex_), two             *)
(* std::condition_variable (writer_, reader_), a reader counter and a      *)
(* writer flag.                                                            *)
(*                                                                         *)
(* Every thread is a small program counter machine.  A step that needs     *)
(* mutex_ is enabled only while mutex_ is free; a condition wait releases  *)
(* mutex_ and parks the thread in the condition variable's wait set; a     *)
(* notified (or spuriously woken) thread leaves the wait set and must      *)
(* re-acquire mutex_ before it re-evaluates its loop condition.            *)
(***************************************************************************)
EXTENDS Integers, FiniteSets

\* Number of client threads of the one latch instance.
NumThreads == 4

\* Admission cap.  The source sets it to UINT_MAX; the model scales the width
\* of reader_count_ down so that the cap is reachable.
MAX_READERS == 2

Threads == 1..NumThreads

\* mutex_ is free
NoOwner == 0

\* The thread that owns the latch object and runs its destructor
Destroyer == NumThreads + 1

VARIABLES
  mutex_,          \* owner of the internal std::mutex, or NoOwner
  writer_,         \* threads parked on condition variable writer_
  reader_,         \* threads parked on condition variable reader_
  reader_count_,   \* uint32_t reader_count_
  writer_entered_, \* bool writer_entered_
  pc,              \* per thread: position in the latch code; for the
                   \*   Destroyer: the lifetime of the latch object
  rheld,           \* per thread: RLock calls returned and not yet RUnlock-ed
  wheld,           \* per thread: WLock calls returned and not yet WUnlock-ed
  sawReaders,      \* history: the thread's latest WLock, not yet undone by
                   \*   WUnlock, was called while reader_count_ > 0
  ahead,           \* history, per thread inside RLock: the writers that were
                   \*   inside such a WLock when RLock was called and have not
                   \*   completed a WUnlock since
  history          \* history of the latch: r (w) is 0 while RLock (WLock) was
                   \*   never called, 1 once it was called, 2 once an RUnlock
                   \*   (a WUnlock) has completed

vars == <<mutex_, writer_, reader_, reader_count_, writer_entered_, pc,
          rheld, wheld, sawReaders, ahead, history>>

\* Positions.  The number is the source line the thread is about to execute
\* (W50/W56/R77: loop tests, owning mutex_; W52/W57/R78: inside wait();
\* WU67/RU88: first statement of the unlock body, owning mutex_).
WLockPcs == {"W50", "W52", "W56", "W57"}
RLockPcs == {"R77", "R78"}
WaitPcs == {"W52", "W57", "R78"}
OwnerPcs == {"W50", "W56", "WU67", "R77", "RU88"}
AllPcs == {"idle"} \cup WLockPcs \cup RLockPcs \cup {"WU67", "RU88"}

\* Positions of the Destroyer: the object is alive ("idle"), the destructor
\* has been called and stands at the lock_guard of line 33, the object is gone.
DtorPcs == {"idle", "D33", "destroyed"}

\* uint32_t arithmetic, at the scaled width
Wrap(n) == n % (MAX_READERS + 1)

\* condition_variable::notify_one on wait set S: the possible wait sets after
NotifyOne(S) == IF S = {} THEN {S} ELSE {S \ {x} : x \in S}

\* condition_variable::notify_all on wait set S
NotifyAll(S) == {}

\* A thread parked inside wait(), not yet notified
Parked(t) == t \in writer_ \cup reader_

TypeOK ==
  /\ mutex_ \in Threads \cup {NoOwner}
  /\ writer_ \subseteq Threads
  /\ reader_ \subseteq Threads
  /\ reader_count_ \in 0..MAX_READERS
  /\ writer_entered_ \in BOOLEAN
  /\ \A t \in Threads : pc[t] \in AllPcs
  /\ pc[Destroyer] \in DtorPcs
  /\ rheld \in [Threads -> 0..MAX_READERS]
  /\ wheld \in [Threads -> 0..1]
  /\ sawReaders \in [Threads -> BOOLEAN]
  /\ ahead \in [Threads -> SUBSET Threads]
  /\ history \in [r : 0..2, w : 0..2]

Init ==
  /\ mutex_ = NoOwner
  /\ writer_ = {}
  /\ reader_ = {}
  /\ reader_count_ = 0
  /\ writer_entered_ = FALSE
  /\ pc = [t \in Threads \cup {Destroyer} |-> "idle"]
  /\ rheld = [t \in Threads |-> 0]
  /\ wheld = [t \in Threads |-> 0]
  /\ sawReaders = [t \in Threads |-> FALSE]
  /\ ahead = [t \in Threads |-> {}]
  /\ history = [r |-> 0, w |-> 0]

----------------------------------------------------------------------------
\* Caller contract: which call a thread may make from where it stands.
HoldsNothing(t) == rheld[t] = 0 /\ wheld[t] = 0

\* ---- WLock ----

\* line 45: std::unique_lock<mutex_t> latch(mutex_)
WLockEnter(t) ==
  /\ pc[t] = "idle"
  /\ mutex_ = NoOwner
  /\ mutex_' = t
  /\ pc' = [pc EXCEPT ![t] = "W50"]
  /\ sawReaders' = [sawReaders EXCEPT ![t] = (reader_count_ > 0)]
  /\ history' = [history EXCEPT !.w = IF @ = 0 THEN 1 ELSE @]
  /\ UNCHANGED <<writer_, reader_, reader_count_, writer_entered_, rheld,
                 wheld, ahead>>

\* WLockFirst without the first wait loop: the flag is taken unconditionally.
WLockFirst_NoWait(t) ==
  /\ pc[t] = "W50"
  /\ mutex_ = t
  /\ writer_entered_' = TRUE
  /\ pc' = [pc EXCEPT ![t] = "W56"]
  /\ UNCHANGED <<reader_, mutex_, writer_, reader_count_, rheld, wheld,
                 sawReaders, ahead, history>>

\* WLockFirst that waits on writer_ instead of reader_ at line 52.
WLockFirst_WaitOnWriter(t) ==
  /\ pc[t] = "W50"
  /\ mutex_ = t
  /\ IF writer_entered_
       THEN /\ writer_' = writer_ \cup {t}
            /\ mutex_' = NoOwner
            /\ pc' = [pc EXCEPT ![t] = "W52"]
            /\ UNCHANGED writer_entered_
       ELSE /\ writer_entered_' = TRUE
            /\ pc' = [pc EXCEPT ![t] = "W56"]
            /\ UNCHANGED <<writer_, mutex_>>
  /\ UNCHANGED <<reader_, reader_count_, rheld, wheld, sawReaders, ahead,
                 history>>

\* lines 50-54: while (writer_entered_) reader_.wait(latch); writer_entered_ = true
WLockFirst(t) ==
  /\ pc[t] = "W50"
  /\ mutex_ = t
  /\ IF writer_entered_
       THEN /\ reader_' = reader_ \cup {t}
            /\ mutex_' = NoOwner
            /\ pc' = [pc EXCEPT ![t] = "W52"]
            /\ UNCHANGED writer_entered_
       ELSE /\ writer_entered_' = TRUE
            /\ pc' = [pc EXCEPT ![t] = "W56"]
            /\ UNCHANGED <<reader_, mutex_>>
  /\ UNCHANGED <<writer_, reader_count_, rheld, wheld, sawReaders, ahead,
                 history>>

\* WLockSecond without the draining loop: returns while readers still hold.
WLockSecond_NoDrain(t) ==
  /\ pc[t] = "W56"
  /\ mutex_ = t
  /\ mutex_' = NoOwner
  /\ pc' = [pc EXCEPT ![t] = "idle"]
  /\ wheld' = [wheld EXCEPT ![t] = @ + 1]
  /\ UNCHANGED <<writer_, reader_, reader_count_, writer_entered_, rheld,
                 sawReaders, ahead, history>>

\* WLockSecond whose drain test is off by one: it returns with one reader left.
WLockSecond_OffByOne(t) ==
  /\ pc[t] = "W56"
  /\ mutex_ = t
  /\ mutex_' = NoOwner
  /\ IF reader_count_ > 1
       THEN /\ writer_' = writer_ \cup {t}
            /\ pc' = [pc EXCEPT ![t] = "W57"]
            /\ UNCHANGED wheld
       ELSE /\ pc' = [pc EXCEPT ![t] = "idle"]
            /\ wheld' = [wheld EXCEPT ![t] = @ + 1]
            /\ UNCHANGED writer_
  /\ UNCHANGED <<reader_, reader_count_, writer_entered_, rheld, sawReaders,
                 ahead, history>>

\* lines 56-59: while (reader_count_ > 0) writer_.wait(latch); return
WLockSecond(t) ==
  /\ pc[t] = "W56"
  /\ mutex_ = t
  /\ mutex_' = NoOwner
  /\ IF reader_count_ > 0
       THEN /\ writer_' = writer_ \cup {t}
            /\ pc' = [pc EXCEPT ![t] = "W57"]
            /\ UNCHANGED wheld
       ELSE /\ pc' = [pc EXCEPT ![t] = "idle"]
            /\ wheld' = [wheld EXCEPT ![t] = @ + 1]
            /\ UNCHANGED writer_
  /\ UNCHANGED <<reader_, reader_count_, writer_entered_, rheld, sawReaders,
                 ahead, history>>

\* ---- WUnlock ----

\* line 65: std::lock_guard<mutex_t> guard(mutex_)
WUnlockEnter(t) ==
  /\ pc[t] = "idle"
  /\ wheld[t] > 0
  /\ mutex_ = NoOwner
  /\ mutex_' = t
  /\ pc' = [pc EXCEPT ![t] = "WU67"]
  /\ UNCHANGED <<writer_, reader_, reader_count_, writer_entered_, rheld,
                 wheld, sawReaders, ahead, history>>

\* WUnlockBody that forgets to clear writer_entered_.
WUnlockBody_KeepFlag(t) ==
  /\ pc[t] = "WU67"
  /\ mutex_ = t
  /\ reader_' = NotifyAll(reader_)
  /\ mutex_' = NoOwner
  /\ pc' = [pc EXCEPT ![t] = "idle"]
  /\ wheld' = [wheld EXCEPT ![t] = @ - 1]
  /\ sawReaders' = [sawReaders EXCEPT ![t] = FALSE]
  /\ ahead' = [u \in Threads |-> ahead[u] \ {t}]
  /\ history' = [history EXCEPT !.w = 2]
  /\ UNCHANGED <<writer_, reader_count_, rheld, writer_entered_>>

\* WUnlockBody that calls reader_.notify_one() instead of notify_all().
WUnlockBody_NotifyOne(t) ==
  /\ pc[t] = "WU67"
  /\ mutex_ = t
  /\ writer_entered_' = FALSE
  /\ reader_' \in NotifyOne(reader_)
  /\ mutex_' = NoOwner
  /\ pc' = [pc EXCEPT ![t] = "idle"]
  /\ wheld' = [wheld EXCEPT ![t] = @ - 1]
  /\ sawReaders' = [sawReaders EXCEPT ![t] = FALSE]
  /\ ahead' = [u \in Threads |-> ahead[u] \ {t}]
  /\ history' = [history EXCEPT !.w = 2]
  /\ UNCHANGED <<writer_, reader_count_, rheld>>

\* lines 67-69: writer_entered_ = false; reader_.notify_all(); return
WUnlockBody(t) ==
  /\ pc[t] = "WU67"
  /\ mutex_ = t
  /\ writer_entered_' = FALSE
  /\ reader_' = NotifyAll(reader_)
  /\ mutex_' = NoOwner
  /\ pc' = [pc EXCEPT ![t] = "idle"]
  /\ wheld' = [wheld EXCEPT ![t] = @ - 1]
  /\ sawReaders' = [sawReaders EXCEPT ![t] = FALSE]
  /\ ahead' = [u \in Threads |-> ahead[u] \ {t}]
  /\ history' = [history EXCEPT !.w = 2]
  /\ UNCHANGED <<writer_, reader_count_, rheld>>

\* ---- RLock ----

\* line 75: std::unique_lock<mutex_t> latch(mutex_)
RLockEnter(t) ==
  /\ pc[t] = "idle"
  /\ mutex_ = NoOwner
  /\ mutex_' = t
  /\ pc' = [pc EXCEPT ![t] = "R77"]
  /\ ahead' = [ahead EXCEPT ![t] =
                 {w \in Threads : pc[w] \in WLockPcs /\ sawReaders[w]}]
  /\ history' = [history EXCEPT !.r = IF @ = 0 THEN 1 ELSE @]
  /\ UNCHANGED <<writer_, reader_, reader_count_, writer_entered_, rheld,
                 wheld, sawReaders>>

\* RLockBody whose loop tests only the cap: readers pass an entered writer.
RLockBody_IgnoreWriter(t) ==
  /\ pc[t] = "R77"
  /\ mutex_ = t
  /\ mutex_' = NoOwner
  /\ IF reader_count_ = MAX_READERS
       THEN /\ reader_' = reader_ \cup {t}
            /\ pc' = [pc EXCEPT ![t] = "R78"]
            /\ UNCHANGED <<reader_count_, rheld, ahead>>
       ELSE /\ reader_count_' = Wrap(reader_count_ + 1)
            /\ pc' = [pc EXCEPT ![t] = "idle"]
            /\ rheld' = [rheld EXCEPT ![t] = @ + 1]
            /\ ahead' = [ahead EXCEPT ![t] = {}]
            /\ UNCHANGED reader_
  /\ UNCHANGED <<writer_, writer_entered_, wheld, sawReaders, history>>

\* RLockBody whose cap test is off by one: the last free slot is refused.
RLockBody_CapOffByOne(t) ==
  /\ pc[t] = "R77"
  /\ mutex_ = t
  /\ mutex_' = NoOwner
  /\ IF writer_entered_ \/ reader_count_ >= MAX_READERS - 1
       THEN /\ reader_' = reader_ \cup {t}
            /\ pc' = [pc EXCEPT ![t] = "R78"]
            /\ UNCHANGED <<reader_count_, rheld, ahead>>
       ELSE /\ reader_count_' = Wrap(reader_count_ + 1)
            /\ pc' = [pc EXCEPT ![t] = "idle"]
            /\ rheld' = [rheld EXCEPT ![t] = @ + 1]
            /\ ahead' = [ahead EXCEPT ![t] = {}]
            /\ UNCHANGED reader_
  /\ UNCHANGED <<writer_, writer_entered_, wheld, sawReaders, history>>

\* RLockBody whose wait does not release mutex_ while the thread is parked.
RLockBody_WaitKeepsMutex(t) ==
  /\ pc[t] = "R77"
  /\ mutex_ = t
  /\ IF writer_entered_ \/ reader_count_ = MAX_READERS
       THEN /\ reader_' = reader_ \cup {t}
            /\ pc' = [pc EXCEPT ![t] = "R78"]
            /\ UNCHANGED <<mutex_, reader_count_, rheld, ahead>>
       ELSE /\ reader_count_' = Wrap(reader_count_ + 1)
            /\ mutex_' = NoOwner
            /\ pc' = [pc EXCEPT ![t] = "idle"]
            /\ rheld' = [rheld EXCEPT ![t] = @ + 1]
            /\ ahead' = [ahead EXCEPT ![t] = {}]
            /\ UNCHANGED reader_
  /\ UNCHANGED <<writer_, writer_entered_, wheld, sawReaders, history>>

\* lines 77-81: while (writer_entered_ || reader_count_ == MAX_READERS)
\*                reader_.wait(latch);
\*              reader_count_++; return
RLockBody(t) ==
  /\ pc[t] = "R77"
  /\ mutex_ = t
  /\ mutex_' = NoOwner
  /\ IF writer_entered_ \/ reader_count_ = MAX_READERS
       THEN /\ reader_' = reader_ \cup {t}
            /\ pc' = [pc EXCEPT ![t] = "R78"]
            /\ UNCHANGED <<reader_count_, rheld, ahead>>
       ELSE /\ reader_count_' = Wrap(reader_count_ + 1)
            /\ pc' = [pc EXCEPT ![t] = "idle"]
            /\ rheld' = [rheld EXCEPT ![t] = @ + 1]
            /\ ahead' = [ahead EXCEPT ![t] = {}]
            /\ UNCHANGED reader_
  /\ UNCHANGED <<writer_, writer_entered_, wheld, sawReaders, history>>

\* ---- RUnlock ----

\* line 87: std::lock_guard<mutex_t> guard(mutex_)
RUnlockEnter(t) ==
  /\ pc[t] = "idle"
  /\ rheld[t] > 0
  /\ mutex_ = NoOwner
  /\ mutex_' = t
  /\ pc' = [pc EXCEPT ![t] = "RU88"]
  /\ UNCHANGED <<writer_, reader_, reader_count_, writer_entered_, rheld,
                 wheld, sawReaders, ahead, history>>

\* RUnlockBody that never notifies writer_: the draining writer's wakeup is
\* missed.
RUnlockBody_NoWriterNotify(t) ==
  /\ pc[t] = "RU88"
  /\ mutex_ = t
  /\ reader_count_' = Wrap(reader_count_ - 1)
  /\ IF writer_entered_
       THEN UNCHANGED <<writer_, reader_>>
       ELSE /\ reader_' \in (IF reader_count_' = MAX_READERS - 1
                               THEN NotifyOne(reader_) ELSE {reader_})
            /\ UNCHANGED writer_
  /\ mutex_' = NoOwner
  /\ pc' = [pc EXCEPT ![t] = "idle"]
  /\ rheld' = [rheld EXCEPT ![t] = @ - 1]
  /\ history' = [history EXCEPT !.r = 2]
  /\ UNCHANGED <<writer_entered_, wheld, sawReaders, ahead>>

\* RUnlockBody that decrements only on the branch with a writer entered.
RUnlockBody_DecrementOnlyForWriter(t) ==
  /\ pc[t] = "RU88"
  /\ mutex_ = t
  /\ IF writer_entered_
       THEN /\ reader_count_' = Wrap(reader_count_ - 1)
            /\ writer_' \in (IF reader_count_' = 0
                               THEN NotifyOne(writer_) ELSE {writer_})
            /\ UNCHANGED reader_
       ELSE /\ UNCHANGED reader_count_
            /\ reader_' \in (IF reader_count_' = MAX_READERS - 1
                               THEN NotifyOne(reader_) ELSE {reader_})
            /\ UNCHANGED writer_
  /\ mutex_' = NoOwner
  /\ pc' = [pc EXCEPT ![t] = "idle"]
  /\ rheld' = [rheld EXCEPT ![t] = @ - 1]
  /\ history' = [history EXCEPT !.r = 2]
  /\ UNCHANGED <<writer_entered_, wheld, sawReaders, ahead>>

\* RUnlockBody that notifies writer_ on every release under an entered writer,
\* without the test of line 92.
RUnlockBody_AlwaysNotifyWriter(t) ==
  /\ pc[t] = "RU88"
  /\ mutex_ = t
  /\ reader_count_' = Wrap(reader_count_ - 1)
  /\ IF writer_entered_
       THEN /\ writer_' \in NotifyOne(writer_)
            /\ UNCHANGED reader_
       ELSE /\ reader_' \in (IF reader_count_' = MAX_READERS - 1
                               THEN NotifyOne(reader_) ELSE {reader_})
            /\ UNCHANGED writer_
  /\ mutex_' = NoOwner
  /\ pc' = [pc EXCEPT ![t] = "idle"]
  /\ rheld' = [rheld EXCEPT ![t] = @ - 1]
  /\ history' = [history EXCEPT !.r = 2]
  /\ UNCHANGED <<writer_entered_, wheld, sawReaders, ahead>>

\* RUnlockBody whose cap test compares the decremented count with
\* MAX_READERS instead of MAX_READERS - 1.
RUnlockBody_CapTestOffByOne(t) ==
  /\ pc[t] = "RU88"
  /\ mutex_ = t
  /\ reader_count_' = Wrap(reader_count_ - 1)
  /\ IF writer_entered_
       THEN /\ writer_' \in (IF reader_count_' = 0
                               THEN NotifyOne(writer_) ELSE {writer_})
            /\ UNCHANGED reader_
       ELSE /\ reader_' \in (IF reader_count_' = MAX_READERS
                               THEN NotifyOne(reader_) ELSE {reader_})
            /\ UNCHANGED writer_
  /\ mutex_' = NoOwner
  /\ pc' = [pc EXCEPT ![t] = "idle"]
  /\ rheld' = [rheld EXCEPT ![t] = @ - 1]
  /\ history' = [history EXCEPT !.r = 2]
  /\ UNCHANGED <<writer_entered_, wheld, sawReaders, ahead>>

\* lines 88-100: reader_count_--; the two notify_one branches; return
RUnlockBody(t) ==
  /\ pc[t] = "RU88"
  /\ mutex_ = t
  /\ reader_count_' = Wrap(reader_count_ - 1)
  /\ IF writer_entered_
       THEN /\ writer_' \in (IF reader_count_' = 0
                               THEN NotifyOne(writer_) ELSE {writer_})
            /\ UNCHANGED reader_
       ELSE /\ reader_' \in (IF reader_count_' = MAX_READERS - 1
                               THEN NotifyOne(reader_) ELSE {reader_})
            /\ UNCHANGED writer_
  /\ mutex_' = NoOwner
  /\ pc' = [pc EXCEPT ![t] = "idle"]
  /\ rheld' = [rheld EXCEPT ![t] = @ - 1]
  /\ history' = [history EXCEPT !.r = 2]
  /\ UNCHANGED <<writer_entered_, wheld, sawReaders, ahead>>

\* ---- condition_variable::wait, second half ----

\* WaitReturn for loops written as `if': a woken thread does not test its
\* condition again, it goes on to the statement after the loop.
WaitReturn_NoRecheck(t) ==
  /\ pc[t] \in WaitPcs
  /\ ~Parked(t)
  /\ mutex_ = NoOwner
  /\ \/ /\ pc[t] = "W52"
        /\ mutex_' = t
        /\ writer_entered_' = TRUE
        /\ pc' = [pc EXCEPT ![t] = "W56"]
        /\ UNCHANGED <<reader_count_, rheld, wheld, ahead>>
     \/ /\ pc[t] = "W57"
        /\ pc' = [pc EXCEPT ![t] = "idle"]
        /\ wheld' = [wheld EXCEPT ![t] = @ + 1]
        /\ UNCHANGED <<mutex_, reader_count_, writer_entered_, rheld, ahead>>
     \/ /\ pc[t] = "R78"
        /\ reader_count_' = Wrap(reader_count_ + 1)
        /\ pc' = [pc EXCEPT ![t] = "idle"]
        /\ rheld' = [rheld EXCEPT ![t] = @ + 1]
        /\ ahead' = [ahead EXCEPT ![t] = {}]
        /\ UNCHANGED <<mutex_, writer_entered_, wheld>>
  /\ UNCHANGED <<writer_, reader_, sawReaders, history>>

\* A notified thread re-locks mutex_ inside wait() and returns to its loop test
\* (lines 52 -> 50, 57 -> 56, 78 -> 77).
WaitReturn(t) ==
  /\ pc[t] \in WaitPcs
  /\ ~Parked(t)
  /\ mutex_ = NoOwner
  /\ mutex_' = t
  /\ pc' = [pc EXCEPT ![t] = CASE pc[t] = "W52" -> "W50"
                                [] pc[t] = "W57" -> "W56"
                                [] pc[t] = "R78" -> "R77"]
  /\ UNCHANGED <<writer_, reader_, reader_count_, writer_entered_, rheld,
                 wheld, sawReaders, ahead, history>>

\* std::condition_variable::wait may return without any notification.
SpuriousWakeup(t) ==
  /\ Parked(t)
  /\ writer_' = writer_ \ {t}
  /\ reader_' = reader_ \ {t}
  /\ UNCHANGED <<mutex_, reader_count_, writer_entered_, pc, rheld, wheld,
                 sawReaders, ahead, history>>

\* ---- ~ReaderWriterLatch ----

\* The latch object has not begun to be destroyed
Alive == pc[Destroyer] = "idle"

\* Every client is done with the latch, but for a release that is still
\* inside its body: what the owner must know before it destroys the object.
Quiescent ==
  \A t \in Threads :
    \/ pc[t] = "idle" /\ HoldsNothing(t)
    \/ pc[t] = "WU67" /\ rheld[t] = 0
    \/ pc[t] = "RU88" /\ rheld[t] = 1 /\ wheld[t] = 0

\* line 33: the destructor is called
DtorCall ==
  /\ Alive
  /\ Quiescent
  /\ pc' = [pc EXCEPT ![Destroyer] = "D33"]
  /\ UNCHANGED <<mutex_, writer_, reader_, reader_count_, writer_entered_,
                 rheld, wheld, sawReaders, ahead, history>>

\* A destructor without the lock_guard (= default).
DtorRun_NoLock ==
  /\ pc[Destroyer] = "D33"
  /\ pc' = [pc EXCEPT ![Destroyer] = "destroyed"]
  /\ UNCHANGED <<mutex_, writer_, reader_, reader_count_, writer_entered_,
                 rheld, wheld, sawReaders, ahead, history>>

\* line 33: { std::lock_guard<mutex_t> guard(mutex_); } locks mutex_ once it
\* is free and unlocks it at once; then the members are destroyed
DtorRun ==
  /\ pc[Destroyer] = "D33"
  /\ mutex_ = NoOwner
  /\ pc' = [pc EXCEPT ![Destroyer] = "destroyed"]
  /\ UNCHANGED <<mutex_, writer_, reader_, reader_count_, writer_entered_,
                 rheld, wheld, sawReaders, ahead, history>>

----------------------------------------------------------------------------
\* Steps every thread takes whatever the caller does: the bodies of the four
\* operations, the releases of what it holds, and the returns from wait().
Inside(t) ==
  \/ WLockFirst(t)
  \/ WLockSecond(t)
  \/ WUnlockEnter(t)
  \/ WUnlockBody(t)
  \/ RLockBody(t)
  \/ RUnlockEnter(t)
  \/ RUnlockBody(t)
  \/ WaitReturn(t)
  \/ SpuriousWakeup(t)

\* A caller that keeps the contract acquires only while it holds nothing.
Next ==
  \E t \in Threads :
    \/ HoldsNothing(t) /\ WLockEnter(t)
    \/ HoldsNothing(t) /\ RLockEnter(t)
    \/ Inside(t)

Spec == Init /\ [][Next]_vars

\* Scheduling assumed by the progress properties.  The thread that owns
\* mutex_ runs on to its next wait or return (weak fairness of the bodies, of
\* which only the owner's is enabled); a thread that needs mutex_, to return
\* from wait() or to release a read latch it holds, gets it eventually
\* although other threads take it in between (strong fairness; the two steps
\* are never enabled together for one thread).  No thread is obliged to start
\* an acquisition or to release the write latch, and a spurious wakeup is
\* never owed.
Fairness ==
  /\ WF_vars(\E t \in Threads :
               \/ WLockFirst(t)
               \/ WLockSecond(t)
               \/ WUnlockBody(t)
               \/ RLockBody(t)
               \/ RUnlockBody(t))
  /\ \A t \in Threads : SF_vars(WaitReturn(t) \/ RUnlockEnter(t))

SpecFair == Init /\ [][Next]_vars /\ Fairness

\* A caller that may also acquire again while it holds the latch.
NextReentrant ==
  \E t \in Threads :
    \/ WLockEnter(t)
    \/ RLockEnter(t)
    \/ Inside(t)

SpecReentrant == Init /\ [][NextReentrant]_vars

\* The latch with its end of life: clients keep the contract and start no
\* operation once the destructor has been called; an operation already
\* inside mutex_ runs to its end.
NextDestroy ==
  \/ \E t \in Threads :
       \/ Alive /\ HoldsNothing(t) /\ WLockEnter(t)
       \/ Alive /\ HoldsNothing(t) /\ RLockEnter(t)
       \/ Alive /\ WUnlockEnter(t)
       \/ Alive /\ RUnlockEnter(t)
       \/ WLockFirst(t)
       \/ WLockSecond(t)
       \/ WUnlockBody(t)
       \/ RLockBody(t)
       \/ RUnlockBody(t)
       \/ WaitReturn(t)
       \/ SpuriousWakeup(t)
  \/ DtorCall
  \/ DtorRun

SpecDestroy == Init /\ [][NextDestroy]_vars

----------------------------------------------------------------------------
\* Vocabulary of the properties.

\* t has returned from WLock and not yet called WUnlock
HoldsWrite(t) == pc[t] = "idle" /\ wheld[t] > 0

\* t has returned from RLock and not yet completed the matching RUnlock
HoldsRead(t) == rheld[t] > 0

\* t is past the first wait of WLock (it set writer_entered_) and has not yet
\* executed WUnlock
Announced(t) == pc[t] \in {"W56", "W57"} \/ wheld[t] > 0

----------------------------------------------------------------------------
\* C1: writer/reader mutual exclusion.  Whenever some thread has returned from
\* WLock and not yet called WUnlock, reader_count_ is 0 and no thread has
\* returned from RLock without having released.
C1_WriterExcludesReaders ==
  \A w \in Threads :
    HoldsWrite(w) => reader_count_ = 0 /\ \A r \in Threads : ~HoldsRead(r)

\* C1 case: a writer holds the latch after it was called while readers held
\* it, and a reader stands blocked in RLock.
C1_Witness ==
  \E w, r \in Threads :
    HoldsWrite(w) /\ sawReaders[w] /\ pc[r] = "R78"

\* C2: writer/writer mutual exclusion.  At most one thread is past the first
\* wait of WLock and has not executed WUnlock, so at most one holds the write
\* latch.
C2_SingleWriter ==
  /\ Cardinality({t \in Threads : Announced(t)}) <= 1
  /\ Cardinality({t \in Threads : HoldsWrite(t)}) <= 1

\* C2 case: one writer holds the latch while another one waits in the first
\* loop of WLock.
C2_Witness ==
  \E w, v \in Threads :
    w # v /\ HoldsWrite(w) /\ pc[v] = "W52"

\* The step in which reader t is admitted: RLock increments reader_count_
\* and returns.
Admit(t) == pc[t] = "R77" /\ pc'[t] = "idle"

\* C3 as stated: a reader that called RLock after a writer had called WLock
\* while readers held the latch is admitted only after that writer has
\* acquired the latch and released it with WUnlock.
C3_CallPrecedence ==
  [][\A t \in Threads : Admit(t) => ahead[t] = {}]_vars

\* C3 amended: from the step in which a writer sets writer_entered_ until its
\* WUnlock, no reader is admitted, and the writer stays entered until it
\* executes the body of WUnlock.
C3_AnnouncedPrecedence ==
  [][\A w \in Threads :
       Announced(w) =>
         /\ \A t \in Threads : ~Admit(t)
         /\ Announced(w)' \/ pc[w] = "WU67"]_vars

\* C3 case: the writer, called while readers held the latch, has acquired it
\* while a reader that called RLock after it is still waiting.
C3_Witness ==
  \E w, t \in Threads :
    HoldsWrite(w) /\ w \in ahead[t] /\ pc[t] = "R78" /\ t \in reader_

\* C4: read concurrency.  With no writer entered and fewer than MAX_READERS
\* read holders, a thread at the loop test of RLock is admitted by its next
\* step: it never parks on reader_.
C4_ReadConcurrency ==
  [][\A t \in Threads :
       ( /\ pc[t] = "R77"
         /\ ~writer_entered_
         /\ Cardinality({u \in Threads : HoldsRead(u)}) < MAX_READERS )
       => pc'[t] \in {"R77", "idle"} /\ ~Parked(t)']_vars

\* C4 case: MAX_READERS threads hold the read latch at once, none of them
\* having released yet, and no writer was ever involved.
C4_Witness ==
  /\ Cardinality({t \in Threads : pc[t] = "idle" /\ rheld[t] = 1}) = MAX_READERS
  /\ reader_count_ = MAX_READERS
  /\ history = [r |-> 1, w |-> 0]

\* C5: draining-writer liveness.  Under the fair scheduling above, a writer
\* that has set writer_entered_ and is waiting for reader_count_ to reach 0
\* eventually returns from WLock, whatever other threads call meanwhile.
C5_DrainingWriterReturns ==
  \A w \in Threads : (pc[w] \in {"W56", "W57"}) ~> HoldsWrite(w)

\* C5 case: a writer that was called while readers held the latch has
\* returned from WLock while another thread is blocked in RLock.
C5_Witness ==
  \E w, r \in Threads :
    /\ HoldsWrite(w) /\ sawReaders[w]
    /\ pc[r] = "R78"
    /\ history.r = 2

\* Every thread other than t is outside the latch code and holds nothing.
OthersFinished(t) ==
  \A u \in Threads \ {t} : pc[u] = "idle" /\ HoldsNothing(u)

\* The latch is Idle
Idle == ~writer_entered_ /\ reader_count_ = 0

\* C6: no blocked acquire is left behind.  In no reachable state is a thread
\* parked in RLock or WLock while every other thread has finished and the
\* latch is Idle.
C6_NoStrandedWaiter ==
  \A t \in Threads : ~(Parked(t) /\ OthersFinished(t) /\ Idle)

\* Every read acquisition that returned has been released.
Balanced == \A u \in Threads : rheld[u] = 0

\* C7: release balance.  Once every returned RLock has been matched by a
\* completed RUnlock, reader_count_ is 0, the latch is Idle unless a writer
\* has entered, and a WLock that finds no writer entered sets the flag and
\* returns without parking on either condition variable.
C7_ReleaseBalance ==
  [][Balanced =>
       /\ reader_count_ = 0
       /\ (\A u \in Threads : ~Announced(u)) => Idle
       /\ \A t \in Threads :
            /\ (pc[t] = "W50" /\ ~writer_entered_) => pc'[t] \in {"W50", "W56"}
            /\ pc[t] = "W56" =>
                 /\ pc'[t] \in {"W56", "idle"}
                 /\ pc'[t] = "idle" => wheld'[t] = 1]_vars

\* C7 case: read latches were acquired and all released with no writer
\* involved, and then the first WLock ever called, finding reader_count_ = 0,
\* has returned.
C7_Witness ==
  \E w \in Threads :
    /\ HoldsWrite(w) /\ ~sawReaders[w]
    /\ OthersFinished(w)
    /\ history = [r |-> 2, w |-> 1]

\* The state of the latch object
LatchState == <<reader_count_, writer_entered_, writer_, reader_, mutex_>>

\* C8: reusability.  After complete WLock/WUnlock cycles on a latch never
\* used for reading, with no call in progress, the latch state equals the
\* state after construction.
C8_Reusable ==
  ( /\ history = [r |-> 0, w |-> 2]
    /\ \A t \in Threads : pc[t] = "idle" /\ HoldsNothing(t) )
  => LatchState = <<0, FALSE, {}, {}, NoOwner>>

\* C8 case: a WUnlock has completed on a latch never used for reading and
\* no call is in progress.
C8_Witness ==
  /\ history = [r |-> 0, w |-> 2]
  /\ \A t \in Threads : pc[t] = "idle" /\ HoldsNothing(t)

\* t is inside an acquisition (WLock or RLock) that has not returned
Acquiring(t) == pc[t] \in WLockPcs \cup RLockPcs

\* C9: re-entrant acquisition while holding write deadlocks.  A thread that
\* holds the write latch and calls WLock or RLock again never returns from
\* that call.
C9_ReentrantAfterWrite ==
  [][\A t \in Threads :
       (wheld[t] > 0 /\ Acquiring(t)) => Acquiring(t)']_vars

\* C9 case: a thread holding the write latch stands in the first loop of a
\* second WLock after a wakeup, and another one stands blocked in RLock.
C9_Witness ==
  /\ \E t \in Threads : wheld[t] > 0 /\ pc[t] = "W52" /\ ~Parked(t)
  /\ \E u \in Threads : pc[u] = "R78"

\* C10 as stated: a thread that holds a read latch and calls RLock or WLock
\* again never returns from that call.
C10_ReentrantAfterRead ==
  [][\A t \in Threads :
       (rheld[t] > 0 /\ Acquiring(t)) => Acquiring(t)']_vars

\* C10 amended: a thread that holds a read latch never returns from a WLock
\* it calls, and never returns from an RLock it calls once a writer has
\* entered (the flag then stays set); with no writer entered and
\* reader_count_ below MAX_READERS the second RLock is admitted.
C10_ReentrantAfterReadAmended ==
  [][\A t \in Threads :
       rheld[t] > 0 =>
         /\ pc[t] \in WLockPcs => pc'[t] \in WLockPcs
         /\ (pc[t] \in RLockPcs /\ writer_entered_) =>
              pc'[t] \in RLockPcs /\ writer_entered_'
         /\ ( /\ pc[t] = "R77"
              /\ ~writer_entered_
              /\ reader_count_ < MAX_READERS
              /\ pc'[t] # "R77" ) =>
              pc'[t] = "idle" /\ rheld'[t] = rheld[t] + 1]_vars

\* C10 case: a thread holding a read latch waits in the drain loop of WLock
\* for its own read hold, while another thread holds two read latches.
C10_Witness ==
  /\ \E t \in Threads : rheld[t] > 0 /\ pc[t] = "W57"
  /\ \E u \in Threads : rheld[u] = 2

----------------------------------------------------------------------------
\* C11: draining is monotone.  While writer_entered_ is set no step increases
\* reader_count_, and writer_entered_ together with reader_count_ > 0 occurs
\* only while the entered writer is still inside WLock (at line 56 or 57),
\* never while a thread holds the write latch.
C11_DrainMonotone ==
  [][/\ writer_entered_ => reader_count_' <= reader_count_
     /\ (writer_entered_ /\ reader_count_ > 0) =>
          /\ \E w \in Threads : pc[w] \in {"W56", "W57"}
          /\ \A w \in Threads : wheld[w] = 0]_vars

\* C11 case: a writer is draining, one of the readers it found has already
\* released, one still holds, and a new reader stands blocked.
C11_Witness ==
  /\ writer_entered_
  /\ reader_count_ = 1
  /\ history.r = 2
  /\ \E w, r \in Threads : pc[w] = "W57" /\ pc[r] = "R78"

\* C12: reader admission cap.  reader_count_ never exceeds MAX_READERS; it
\* grows only by the admission step of RLock, by exactly 1 and without
\* wrapping, and that step is taken from the loop test at line 77 (also after
\* every wakeup) with writer_entered_ false and reader_count_ < MAX_READERS.
C12_AdmissionCap ==
  [][/\ reader_count_ <= MAX_READERS
     /\ \A t \in Threads :
          rheld'[t] > rheld[t] =>
            /\ pc[t] = "R77"
            /\ ~writer_entered_
            /\ reader_count_ < MAX_READERS
            /\ reader_count_' = reader_count_ + 1
     /\ reader_count_' > reader_count_ =>
          /\ reader_count_' = reader_count_ + 1
          /\ \E t \in Threads : Admit(t)]_vars

\* C12 case: reader_count_ stands at the cap and a reader that was refused
\* has been woken and is about to test the loop condition again.
C12_Witness ==
  /\ reader_count_ = MAX_READERS
  /\ ~writer_entered_
  /\ \E t \in Threads : pc[t] = "R78" /\ ~Parked(t)

\* The step in which t completes WUnlock
WUnlockDone(t) == pc[t] = "WU67" /\ pc'[t] = "idle"

\* C13: WUnlock clears writer_entered_ and wakes every thread parked on
\* reader_, writers of line 52 and readers of line 78 alike: after it none is
\* parked there.  A thread leaves a wait only by re-locking mutex_ and going
\* back to its loop test.
C13_WUnlockWakesAll ==
  [][\A t \in Threads :
       /\ WUnlockDone(t) => ~writer_entered_' /\ reader_' = {}
       /\ (pc[t] \in WaitPcs /\ pc'[t] # pc[t]) =>
            /\ ~Parked(t)
            /\ mutex_' = t
            /\ pc'[t] = (CASE pc[t] = "W52" -> "W50"
                           [] pc[t] = "W57" -> "W56"
                           [] pc[t] = "R78" -> "R77")]_vars

\* C13 case: right after a WUnlock a queued writer and a queued reader have
\* both been woken: the flag is clear, nobody is parked on reader_, mutex_ is
\* free and both stand in wait() about to re-lock it.
C13_Witness ==
  /\ history.w = 2
  /\ ~writer_entered_
  /\ reader_ = {}
  /\ mutex_ = NoOwner
  /\ \E w, r \in Threads : pc[w] = "W52" /\ pc[r] = "R78"

\* The step in which t completes RUnlock
RUnlockDone(t) == pc[t] = "RU88" /\ pc'[t] = "idle"

\* The threads a step takes out of the wait set of writer_ / of reader_
WokenOnWriter == writer_ \ writer_'
WokenOnReader == reader_ \ reader_'

\* C14 as stated: RUnlock decrements reader_count_ by exactly 1; under an
\* entered writer it wakes exactly one thread parked on writer_ if and only
\* if the decremented count is 0, and nobody when it is still positive.
C14_WakesExactlyOneWriter ==
  [][\A t \in Threads :
       RUnlockDone(t) =>
         /\ reader_count_' = reader_count_ - 1
         /\ writer_entered_ =>
              /\ Cardinality(WokenOnWriter) = 1 <=> reader_count_' = 0
              /\ reader_count_' > 0 => WokenOnWriter = {} /\ WokenOnReader = {}]_vars

\* C14 amended: RUnlock decrements reader_count_ by exactly 1; under an
\* entered writer, when the decremented count is 0 it wakes the thread parked
\* on writer_ if one is parked there (at most one is, and none when the
\* draining writer has already left wait() by a spurious wakeup); it wakes
\* nobody on writer_ when the count is still positive and never anybody on
\* reader_.
C14_WakesParkedWriter ==
  [][\A t \in Threads :
       RUnlockDone(t) =>
         /\ reader_count_' = reader_count_ - 1
         /\ writer_entered_ =>
              /\ WokenOnReader = {} /\ reader_' = reader_
              /\ writer_' \subseteq writer_
              /\ reader_count_' = 0 =>
                   Cardinality(writer_) <= 1 /\ WokenOnWriter = writer_
              /\ reader_count_' > 0 => WokenOnWriter = {}]_vars

\* C14 case: the last reader has released under an entered writer and the
\* writer, taken out of writer_'s wait set, is about to re-lock mutex_.
C14_Witness ==
  /\ writer_entered_
  /\ reader_count_ = 0
  /\ history.r = 2
  /\ mutex_ = NoOwner
  /\ \E w \in Threads : pc[w] = "W57" /\ ~Parked(w)

\* C15 as stated: with no writer entered RUnlock wakes exactly one thread
\* parked on reader_ if and only if reader_count_ was MAX_READERS before the
\* decrement, and nobody in every other case.
C15_WakesExactlyOneReader ==
  [][\A t \in Threads :
       (RUnlockDone(t) /\ ~writer_entered_) =>
         /\ Cardinality(WokenOnReader) = 1 <=> reader_count_ = MAX_READERS
         /\ reader_count_ # MAX_READERS => WokenOnReader = {}
         /\ WokenOnWriter = {}]_vars

\* C15 amended: with no writer entered, when reader_count_ was MAX_READERS
\* before the decrement RUnlock wakes exactly one of the threads parked on
\* reader_ if any is parked there, and nobody if none is; in every other case
\* it wakes nobody.
C15_WakesOneParkedReader ==
  [][\A t \in Threads :
       (RUnlockDone(t) /\ ~writer_entered_) =>
         /\ reader_' \subseteq reader_ /\ writer_' = writer_
         /\ reader_count_ = MAX_READERS =>
              Cardinality(WokenOnReader) = (IF reader_ = {} THEN 0 ELSE 1)
         /\ reader_count_ # MAX_READERS => WokenOnReader = {}]_vars

\* C15 case: a release from the cap has woken one of two readers parked on
\* reader_; the other one is still parked.
C15_Witness ==
  /\ ~writer_entered_
  /\ reader_count_ = MAX_READERS - 1
  /\ history = [r |-> 2, w |-> 0]
  /\ \E t, u \in Threads :
       /\ pc[t] = "R78" /\ ~Parked(t)
       /\ pc[u] = "R78" /\ u \in reader_

\* The pair the conceptual state machine classifies
LockState == <<writer_entered_, reader_count_>>

\* C16: state-machine conformance.  Every step that changes
\* (writer_entered_, reader_count_) is Idle -> Reading(1) or Reading(n) ->
\* Reading(n+1) with n < MAX_READERS; Reading(n) -> Reading(n-1) or
\* Reading(1) -> Idle; Idle -> Writing or Reading(n) -> WriterPending;
\* WriterPending(n) -> WriterPending(n-1) or WriterPending(1) -> Writing; or
\* Writing -> Idle.  Writing is left only by WUnlock, WriterPending only by
\* RUnlock.
C16_StateMachine ==
  [][LockState' # LockState =>
       /\ \/ /\ ~writer_entered_ /\ ~writer_entered_'
             /\ reader_count_ < MAX_READERS
             /\ reader_count_' = reader_count_ + 1
          \/ /\ ~writer_entered_ /\ ~writer_entered_'
             /\ reader_count_ >= 1
             /\ reader_count_' = reader_count_ - 1
          \/ /\ ~writer_entered_ /\ writer_entered_'
             /\ reader_count_' = reader_count_
          \/ /\ writer_entered_ /\ writer_entered_'
             /\ reader_count_ >= 1
             /\ reader_count_' = reader_count_ - 1
          \/ /\ writer_entered_ /\ ~writer_entered_'
             /\ reader_count_ = 0 /\ reader_count_' = 0
       /\ (writer_entered_ /\ reader_count_ = 0) =>
            \E t \in Threads : WUnlockDone(t)
       /\ (writer_entered_ /\ reader_count_ > 0) =>
            \E t \in Threads : RUnlockDone(t)]_vars

\* C16 case: Writing reached through WriterPending: the writer that was
\* called while readers held the latch holds it now, with a reader queued.
C16_Witness ==
  /\ writer_entered_ /\ reader_count_ = 0
  /\ \E w \in Threads : HoldsWrite(w) /\ sawReaders[w]
  /\ \E r \in Threads : r \in reader_ /\ pc[r] = "R78"

\* C17: the bookkeeping is touched only under mutex_.  A thread stands at a
\* statement that reads or writes reader_count_ or writer_entered_ exactly
\* when it owns mutex_; a thread inside wait() does not own it; at most one
\* thread owns it; and every change of the two fields is a step of the owner.
C17_UnderMutex ==
  [][/\ \A t \in Threads : pc[t] \in OwnerPcs <=> mutex_ = t
     /\ \A t \in Threads : (pc[t] \in WaitPcs \/ Parked(t)) => mutex_ # t
     /\ Cardinality({t \in Threads : pc[t] \in OwnerPcs}) <= 1
     /\ LockState' # LockState =>
          /\ mutex_ # NoOwner
          /\ pc[mutex_] \in OwnerPcs
          /\ pc'[mutex_] # pc[mutex_]]_vars

\* C17 case: a thread owns mutex_ in the body of RUnlock while other threads
\* are parked on both condition variables.
C17_Witness ==
  /\ \E t \in Threads : mutex_ = t /\ pc[t] = "RU88"
  /\ writer_ # {}
  /\ reader_ # {}

\* C19: wait-channel discipline.  At most one thread is parked on writer_, it
\* is the writer that set writer_entered_ (so the flag is set whenever writer_
\* has a waiter) and it stands at line 57; reader_ holds only writers of line
\* 52 and readers of line 78, and no writer is parked there while the flag is
\* clear.  Hence a notify_one of RUnlock takes out of a wait set only a
\* thread whose loop condition is then false: the drained writer, or a reader
\* with the flag clear and room below the cap.
C19_WaitChannels ==
  [][/\ Cardinality(writer_) <= 1
     /\ \A t \in writer_ : pc[t] = "W57" /\ writer_entered_ /\ Announced(t)
     /\ \A t \in reader_ : pc[t] \in {"W52", "R78"}
     /\ ~writer_entered_ => \A t \in reader_ : pc[t] # "W52"
     /\ \A t \in Threads :
          RUnlockDone(t) =>
            /\ \A u \in WokenOnWriter : pc[u] = "W57" /\ reader_count_' = 0
            /\ \A u \in WokenOnReader :
                 /\ pc[u] = "R78"
                 /\ ~writer_entered_'
                 /\ reader_count_' < MAX_READERS]_vars

\* C19 case: the entered writer is parked on writer_ while a second writer
\* and a reader are parked on reader_.
C19_Witness ==
  \E w, v, r \in Threads :
    /\ w \in writer_
    /\ v \in reader_ /\ pc[v] = "W52"
    /\ r \in reader_ /\ pc[r] = "R78"

\* C20: bookkeeping matches holders.  reader_count_ is the number of threads
\* between the increment of RLock and the decrement of RUnlock;
\* writer_entered_ is set exactly when one thread is between line 54 and the
\* clearing in WUnlock; the flag is changed only by steps of WLock and WUnlock
\* and the count only by steps of RLock and RUnlock.
C20_BookkeepingMatchesHolders ==
  [][/\ reader_count_ = Cardinality({t \in Threads : HoldsRead(t)})
     /\ writer_entered_ <=> Cardinality({t \in Threads : Announced(t)}) = 1
     /\ Cardinality({t \in Threads : Announced(t)}) <= 1
     /\ writer_entered_' # writer_entered_ =>
          /\ reader_count_' = reader_count_
          /\ \E t \in Threads :
               /\ pc[t] \in {"W50", "WU67"}
               /\ pc'[t] # pc[t]
     /\ reader_count_' # reader_count_ =>
          /\ writer_entered_' = writer_entered_
          /\ \E t \in Threads :
               /\ pc[t] \in {"R77", "RU88"}
               /\ pc'[t] # pc[t]]_vars

\* C20 case: MAX_READERS threads hold read latches, one of them inside
\* RUnlock before its decrement, while an entered writer is draining.
C20_Witness ==
  /\ reader_count_ = MAX_READERS
  /\ Cardinality({t \in Threads : HoldsRead(t)}) = MAX_READERS
  /\ \E t \in Threads : pc[t] = "RU88"
  /\ \E w \in Threads : pc[w] = "W57"

\* C18: destruction waits for in-flight bookkeeping.  The destructor
\* completes only in a step in which mutex_ is free, so no thread is then
\* inside a mutex-protected section, and once the object is destroyed no
\* thread is inside any operation.
C18_DtorWaitsForMutex ==
  [][pc'[Destroyer] = "destroyed" =>
       /\ pc[Destroyer] = "D33"
       /\ mutex_ = NoOwner
       /\ \A t \in Threads : pc[t] \notin OwnerPcs
       /\ \A t \in Threads : pc'[t] = "idle" /\ HoldsNothing(t)]_vars

\* C18 case: the destructor has been called and is blocked at its lock_guard
\* while a thread owns mutex_ inside the body of an unlock.
C18_Witness ==
  /\ pc[Destroyer] = "D33"
  /\ \E t \in Threads : mutex_ = t /\ pc[t] \in {"WU67", "RU88"}

====
